---------------------------- MODULE Spec2Model ----------------------------
(***************************************************************************)
(* The handler registry and message dispatcher of go-whatsapp             *)
(* (handler.go): Conn.AddHandler, handleMessage, Conn.handle and          *)
(* Conn.dispatch, together with the goroutines that handleMessage starts. *)
(***************************************************************************)
EXTENDS Naturals, Integers, Sequences, FiniteSets, Bags, TLC

(***************************************************************************)
(* Bounds of the model.                                                    *)
(***************************************************************************)
\* longest registry built by AddHandler
MaxHandlers == 2
\* longest content sequence of a node
MaxContent == 2
\* the producer's next top-level call is followed only from states with at
\* most this many goroutines of earlier calls not yet run
MaxPending == 0

(***************************************************************************)
(* Values.  Every Go value is a record tagged with its dynamic type t.     *)
(***************************************************************************)
Nil == [t |-> "nil"]

ErrorValues == {[t |-> "error", v |-> "closed"]}

StringValues == {[t |-> "string", v |-> "status"]}

\* the struct types of the seven chat messages
ChatTypes ==
    {"TextMessage", "ImageMessage", "VideoMessage", "AudioMessage",
     "DocumentMessage", "LocationMessage", "LiveLocationMessage"}

ChatValues == {[t |-> c] : c \in ChatTypes}

\* what a *proto.WebMessageInfo carries: the chat type of its body, or "none"
\* for a body with no typed representation
Bodies == ChatTypes \cup {"none"}

WebMessageInfo(b) == [t |-> "WebMessageInfo", body |-> b]

\* a value of a type that no type switch of handler.go names
Other == [t |-> "other"]

(***************************************************************************)
(* The handler interfaces (lines 18-96).  An observer is a Go value; what  *)
(* matters to the dispatcher is its method set.                            *)
(***************************************************************************)
Observers == {"A", "B", "F"}

\* methods beside HandleError, by observer: A handles text messages, B image
\* messages, F every kind of message.
Methods(o) ==
    CASE o = "A" -> {"HandleTextMessage"}
      [] o = "B" -> {"HandleImageMessage"}
      [] o = "F" -> {"HandleTextMessage", "HandleImageMessage",
                     "HandleVideoMessage", "HandleAudioMessage",
                     "HandleDocumentMessage", "HandleLocationMessage",
                     "HandleLiveLocationMessage", "HandleJsonMessage",
                     "HandleRawMessage"}

\* the method an interface adds to Handler
InterfaceMethod(iface) ==
    CASE iface = "Handler" -> "HandleError"
      [] iface = "TextMessageHandler" -> "HandleTextMessage"
      [] iface = "ImageMessageHandler" -> "HandleImageMessage"
      [] iface = "VideoMessageHandler" -> "HandleVideoMessage"
      [] iface = "AudioMessageHandler" -> "HandleAudioMessage"
      [] iface = "DocumentMessageHandler" -> "HandleDocumentMessage"
      [] iface = "LocationMessageHandler" -> "HandleLocationMessage"
      [] iface = "LiveLocationMessageHandler" -> "HandleLiveLocationMessage"
      [] iface = "JsonMessageHandler" -> "HandleJsonMessage"
      [] iface = "RawMessageHandler" -> "HandleRawMessage"

\* a mutant of Implements: the type assertion always succeeds
ImplementsAlways(o, iface) == TRUE

\* the type assertion h.(iface): every registered value is a Handler
Implements(o, iface) ==
    \/ iface = "Handler"
    \/ InterfaceMethod(iface) \in Methods(o)


(***************************************************************************)
(* Protocol nodes (binary.Node) and the values the producer pushes.        *)
(***************************************************************************)
\* Attributes is a map[string]string: a set of <<key, value>> pairs
AttributeMaps == {{<<"type", "contacts">>}, {<<"type", "other">>}, {}}

\* message.Attributes[key]: the zero value "" for a missing key
Lookup(attrs, key) ==
    IF \E p \in attrs : p[1] = key
    THEN (CHOOSE p \in attrs : p[1] = key)[2]
    ELSE ""

Descriptions == {"action", "response", "other"}

\* the bodies of the envelopes inside nodes
NodeBodies == {"TextMessage", "ImageMessage", "none"}

\* the elements a content sequence is drawn from
Elements == {WebMessageInfo(b) : b \in NodeBodies} \cup {Other}

SeqsUpTo(S, n) == UNION {[1..k -> S] : k \in 0..n}

\* Content is an interface{}: a []interface{}, some other blob, or nil
Contents ==
    {[t |-> "slice", elems |-> s] : s \in SeqsUpTo(Elements, MaxContent)}
        \cup {[t |-> "bytes"], Nil}

Node(d, attrs, c) ==
    [t |-> "Node", Description |-> d, Attributes |-> attrs, Content |-> c]

Nodes == {Node(d, a, c) : d \in Descriptions, a \in AttributeMaps, c \in Contents}

\* what may arrive at dispatch
DispatchInputs ==
    {Nil, Other} \cup ErrorValues \cup StringValues \cup Nodes
        \cup ChatValues \cup {WebMessageInfo(b) : b \in NodeBodies}

\* what the package passes to handle
HandleInputs ==
    {Nil, Other} \cup ErrorValues \cup StringValues
        \cup ChatValues \cup {WebMessageInfo(b) : b \in NodeBodies}

(***************************************************************************)
(* parseProtoMessage, the message decoder: the typed chat message of an    *)
(* envelope, or nil when its body has no typed representation.             *)
(***************************************************************************)
parseProtoMessage(v) ==
    IF v.body \in ChatTypes THEN [t |-> v.body] ELSE Nil

(***************************************************************************)
(* handleMessage (lines 108-170).  A started goroutine is the record of    *)
(* the registry index i, the observer h, the method cb and its argument.   *)
(***************************************************************************)
Goroutine(i, h, cb, arg) == [i |-> i, h |-> h, cb |-> cb, arg |-> arg]

\* a mutant of Range: the loop leaves after the first goroutine it starts
RECURSIVE RangeBreak(_, _, _, _, _)
RangeBreak(handlers, from, iface, cb, m) ==
    IF from > Len(handlers) THEN <<>>
    ELSE IF Implements(handlers[from], iface)
         THEN <<Goroutine(from, handlers[from], cb, m)>>
         ELSE RangeBreak(handlers, from + 1, iface, cb, m)

\* a mutant of Range: the registry is walked from its last entry to its first
RECURSIVE RangeBackwards(_, _, _, _, _)
RangeBackwards(handlers, from, iface, cb, m) ==
    IF from > Len(handlers) THEN <<>>
    ELSE RangeBackwards(handlers, from + 1, iface, cb, m)
         \o (IF Implements(handlers[from], iface)
             THEN <<Goroutine(from, handlers[from], cb, m)>>
             ELSE <<>>)

\* a mutant of Range: an entry equal to an earlier entry of the registry is
\* passed over
RECURSIVE RangeOncePerObserver(_, _, _, _, _)
RangeOncePerObserver(handlers, from, iface, cb, m) ==
    IF from > Len(handlers) THEN <<>>
    ELSE (IF /\ Implements(handlers[from], iface)
             /\ \A k \in 1..(from - 1) : handlers[k] # handlers[from]
          THEN <<Goroutine(from, handlers[from], cb, m)>>
          ELSE <<>>)
         \o RangeOncePerObserver(handlers, from + 1, iface, cb, m)

\* for _, h := range handlers { if x, ok := h.(iface); ok { go x.cb(m) } }
\* from index `from` on: the goroutines started, in order
RECURSIVE Range(_, _, _, _, _)
Range(handlers, from, iface, cb, m) ==
    IF from > Len(handlers) THEN <<>>
    ELSE (IF Implements(handlers[from], iface)
          THEN <<Goroutine(from, handlers[from], cb, m)>>
          ELSE <<>>)
         \o Range(handlers, from + 1, iface, cb, m)

\* a mutant of handleMessage: the error case probes for an optional interface,
\* as the other cases do
handleMessageProbingError(message, handlers) ==
    IF message.t = "error"
    THEN Range(handlers, 1, "JsonMessageHandler", "HandleError", message)
    ELSE <<>>

\* a mutant of handleMessage: a text message is classified again, as the raw
\* message it was decoded from
handleMessageTextAsRaw(message, handlers) ==
    CASE message.t = "error" ->
           Range(handlers, 1, "Handler", "HandleError", message)
      [] message.t = "string" ->
           Range(handlers, 1, "JsonMessageHandler", "HandleJsonMessage", message)
      [] message.t \in {"TextMessage", "WebMessageInfo"} ->
           Range(handlers, 1, "RawMessageHandler", "HandleRawMessage", message)
      [] OTHER -> <<>>

\* the type switch: the goroutines one call starts, in order
handleMessage(message, handlers) ==
    CASE message.t = "error" ->
           Range(handlers, 1, "Handler", "HandleError", message)
      [] message.t = "string" ->
           Range(handlers, 1, "JsonMessageHandler", "HandleJsonMessage", message)
      [] message.t = "TextMessage" ->
           Range(handlers, 1, "TextMessageHandler", "HandleTextMessage", message)
      [] message.t = "ImageMessage" ->
           Range(handlers, 1, "ImageMessageHandler", "HandleImageMessage", message)
      [] message.t = "VideoMessage" ->
           Range(handlers, 1, "VideoMessageHandler", "HandleVideoMessage", message)
      [] message.t = "AudioMessage" ->
           Range(handlers, 1, "AudioMessageHandler", "HandleAudioMessage", message)
      [] message.t = "DocumentMessage" ->
           Range(handlers, 1, "DocumentMessageHandler", "HandleDocumentMessage", message)
      [] message.t = "LocationMessage" ->
           Range(handlers, 1, "LocationMessageHandler", "HandleLocationMessage", message)
      [] message.t = "LiveLocationMessage" ->
           Range(handlers, 1, "LiveLocationMessageHandler",
                 "HandleLiveLocationMessage", message)
      [] message.t = "WebMessageInfo" ->
           Range(handlers, 1, "RawMessageHandler", "HandleRawMessage", message)
      [] OTHER -> <<>>

(***************************************************************************)
(* State.                                                                  *)
(***************************************************************************)
VARIABLES
    handler,    \* wac.handler, the registry
    rpc,        \* the registering goroutine: "idle" or "append"
    rnew,       \* the slice append has built, not yet assigned
    added,      \* history: the observers passed to AddHandler, in call order
    dpc,        \* the producer: "idle", in dispatch at "loop" or "typed", or
                \* at the "return" of its call
    entry,      \* the function the producer called: "dispatch", "handle", or
                \* "none" between calls
    cur,        \* the argument of the current top-level call
    a,          \* the loop index of dispatch (1-based)
    subs,       \* history of this call: the handle each with its
                \* message and the registry it read
    started,    \* history of this call: the goroutines started
    contacts,   \* history of this call: the arguments of updateContacts
    diag,       \* history of this call: the types written to stderr
    tasks,      \* the bag of the goroutines started and not yet run
    written,    \* the envelopes of the node being routed, by content index,
                \* whose message an observer has cleared through its pointer
    decoded,    \* history of this call: the envelopes as parseProtoMessage
                \* read them
    crashed     \* "no", or what has terminated the process: "panic" (of an
                \* observer's method) or "fault" (of the producer's goroutine)

vars ==
    <<handler, rpc, rnew, added, dpc, entry, cur, a, subs, started,
      contacts, diag, tasks, written, decoded, crashed>>

regVars == <<handler, rpc, rnew, added>>
histVars == <<subs, started, contacts, diag>>
envVars == <<written, decoded>>

Alive == crashed = "no"

Init ==
    /\ handler = <<>>
    /\ rpc = "idle"
    /\ rnew = <<>>
    /\ added = <<>>
    /\ dpc = "idle"
    /\ entry = "none"
    /\ cur = Nil
    /\ a = 1
    /\ subs = <<>>
    /\ started = <<>>
    /\ contacts = <<>>
    /\ diag = <<>>
    /\ tasks = EmptyBag
    /\ written = {}
    /\ decoded = <<>>
    /\ crashed = "no"

(***************************************************************************)
(* AddHandler (lines 104-106): append builds the new slice from the one    *)
(* it read, then the assignment publishes it.                              *)
(***************************************************************************)
\* a mutant of AppendHandler: the registry is kept free of duplicates
AppendHandlerDedup(hs, h) ==
    IF \E k \in 1..Len(hs) : hs[k] = h THEN hs ELSE Append(hs, h)

\* append(wac.handler, handler)
AppendHandler(hs, h) == Append(hs, h)

AddHandler(h) ==
    /\ Alive
    /\ rpc = "idle"
    /\ Len(added) < MaxHandlers
    /\ rnew' = AppendHandler(handler, h)
    /\ added' = Append(added, h)
    /\ rpc' = "append"
    /\ UNCHANGED <<envVars, handler, dpc, entry, cur, a, histVars, tasks, crashed>>

AddHandlerAssign ==
    /\ Alive
    /\ rpc = "append"
    /\ handler' = rnew
    /\ rpc' = "idle"
    /\ UNCHANGED <<envVars, rnew, added, dpc, entry, cur, a, histVars, tasks, crashed>>

(***************************************************************************)
(* Conn.handle (lines 172-174): handleMessage on the registry as read at   *)
(* the call.  Every goroutine started joins the live goroutines in state   *)
(* "started": the go statement does not wait for it.                       *)
(***************************************************************************)
RECURSIVE BagOfSeq(_)
BagOfSeq(s) ==
    IF s = <<>> THEN EmptyBag ELSE SetToBag({Head(s)}) (+) BagOfSeq(Tail(s))

Live(g) == [h |-> g.h, cb |-> g.cb, arg |-> g.arg]

\* a mutant of handle: the registry is read once per top-level call, at its
\* first submission
handleSnapshot(message) ==
    LET hs == IF subs = <<>> THEN handler ELSE subs[1].hs
        gs == handleMessage(message, hs)
        n == Len(subs) + 1
    IN  /\ subs' = Append(subs, [m |-> message, hs |-> hs])
        /\ started' = started
             \o [k \in 1..Len(gs) |->
                   [sub |-> n, i |-> gs[k].i, h |-> gs[k].h,
                    cb |-> gs[k].cb, arg |-> gs[k].arg]]
        /\ tasks' = tasks (+) BagOfSeq([k \in 1..Len(gs) |-> Live(gs[k])])

\* wac.handle(message)
handle(message) ==
    LET gs == handleMessage(message, handler)
        n == Len(subs) + 1
    IN  /\ subs' = Append(subs, [m |-> message, hs |-> handler])
        /\ started' = started
             \o [k \in 1..Len(gs) |->
                   [sub |-> n, i |-> gs[k].i, h |-> gs[k].h,
                    cb |-> gs[k].cb, arg |-> gs[k].arg]]
        /\ tasks' = tasks (+) BagOfSeq([k \in 1..Len(gs) |-> Live(gs[k])])

\* a top-level call of function f by the producer, which is idle
Call(f, msg) ==
    /\ Alive
    /\ dpc = "idle"
    /\ BagCardinality(tasks) <= MaxPending
    /\ entry' = f
    /\ cur' = msg

\* a call by the package of handle itself
HandleCall(message) ==
    /\ Call("handle", message)
    /\ handle(message)
    /\ dpc' = "return"
    /\ UNCHANGED <<envVars, regVars, a, contacts, diag, crashed>>

(***************************************************************************)
(* Conn.dispatch (lines 176-202).  The call runs to the end of the         *)
(* function or to the first iteration of the loop of line 185.             *)
(***************************************************************************)
\* a mutant of DispatchNil: the nil check is missing and nil reaches the
\* default case of the switch
DispatchNilReported(msg) ==
    /\ Call("dispatch", msg)
    /\ msg = Nil
    /\ diag' = Append(diag, msg.t)
    /\ dpc' = "return"
    /\ UNCHANGED <<envVars, regVars, a, subs, started, contacts, tasks, crashed>>

\* lines 177-179
DispatchNil(msg) ==
    /\ Call("dispatch", msg)
    /\ msg = Nil
    /\ dpc' = "return"
    /\ UNCHANGED <<envVars, regVars, a, histVars, tasks, crashed>>

\* line 184
IsSlice(c) == c.t = "slice"

\* lines 183-185: an action node whose content is a []interface{}
DispatchAction(msg) ==
    /\ Call("dispatch", msg)
    /\ msg.t = "Node"
    /\ msg.Description = "action"
    /\ IsSlice(msg.Content)
    /\ dpc' = "loop"
    /\ a' = 1
    /\ UNCHANGED <<envVars, regVars, histVars, tasks, crashed>>

\* a mutant of IsContactsResponse: the attribute is looked up under another key
IsContactsResponseWrongKey(message) ==
    /\ message.Description = "response"
    /\ Lookup(message.Attributes, "Type") = "contacts"

\* a mutant of IsContactsResponse: the attribute is not looked at
IsContactsResponseAnyType(message) == message.Description = "response"

\* line 192
IsContactsResponse(message) ==
    /\ message.Description = "response"
    /\ Lookup(message.Attributes, "type") = "contacts"

\* updateContacts is defined in another file of the package; of its effect
\* only the call and its argument are recorded
updateContacts(content) == contacts' = Append(contacts, content)

\* lines 192-194
DispatchContacts(msg) ==
    /\ Call("dispatch", msg)
    /\ msg.t = "Node"
    /\ msg.Description # "action"
    /\ IsContactsResponse(msg)
    /\ updateContacts(msg.Content)
    /\ dpc' = "return"
    /\ UNCHANGED <<envVars, regVars, a, subs, started, diag, tasks, crashed>>

\* lines 183-194, neither branch: an action node whose content is no
\* []interface{}, or another node that is no contacts response
DispatchNodeNothing(msg) ==
    /\ Call("dispatch", msg)
    /\ msg.t = "Node"
    /\ IF msg.Description = "action"
       THEN ~IsSlice(msg.Content)
       ELSE ~IsContactsResponse(msg)
    /\ dpc' = "return"
    /\ UNCHANGED <<envVars, regVars, a, histVars, tasks, crashed>>

\* lines 195-198
DispatchErrorOrString(msg) ==
    /\ Call("dispatch", msg)
    /\ msg.t \in {"error", "string"}
    /\ handle(msg)
    /\ dpc' = "return"
    /\ UNCHANGED <<envVars, regVars, a, contacts, diag, crashed>>

\* a mutant of DispatchDefault: a value no case names is passed on to handle
DispatchDefaultHandled(msg) ==
    /\ Call("dispatch", msg)
    /\ msg.t \notin {"nil", "Node", "error", "string"}
    /\ handle(msg)
    /\ dpc' = "return"
    /\ UNCHANGED <<envVars, regVars, a, contacts, diag, crashed>>

\* lines 199-200
DispatchDefault(msg) ==
    /\ Call("dispatch", msg)
    /\ msg.t \notin {"nil", "Node", "error", "string"}
    /\ diag' = Append(diag, msg.t)
    /\ dpc' = "return"
    /\ UNCHANGED <<envVars, regVars, a, subs, started, contacts, tasks, crashed>>

Dispatch(msg) ==
    \/ DispatchNil(msg)
    \/ DispatchAction(msg)
    \/ DispatchContacts(msg)
    \/ DispatchNodeNothing(msg)
    \/ DispatchErrorOrString(msg)
    \/ DispatchDefault(msg)

\* the content holds pointers (*proto.WebMessageInfo, line 186): the envelope
\* at index j as it is now
Envelope(j) ==
    IF j \in written THEN WebMessageInfo("none") ELSE cur.Content.elems[j]

\* line 185, the loop is over
LoopEnd ==
    /\ Alive
    /\ dpc = "loop"
    /\ a > Len(cur.Content.elems)
    /\ dpc' = "return"
    /\ UNCHANGED <<envVars, regVars, entry, cur, a, histVars, tasks, crashed>>

\* a mutant of LoopSkip: an element that is no envelope ends the loop
LoopSkipBreak ==
    /\ Alive
    /\ dpc = "loop"
    /\ a <= Len(cur.Content.elems)
    /\ cur.Content.elems[a].t # "WebMessageInfo"
    /\ dpc' = "return"
    /\ UNCHANGED <<envVars, regVars, entry, cur, a, histVars, tasks, crashed>>

\* line 186, the type assertion fails
LoopSkip ==
    /\ Alive
    /\ dpc = "loop"
    /\ a <= Len(cur.Content.elems)
    /\ cur.Content.elems[a].t # "WebMessageInfo"
    /\ a' = a + 1
    /\ UNCHANGED <<envVars, regVars, dpc, entry, cur, histVars, tasks, crashed>>

\* a mutant of LoopRaw: line 188 is missing, the typed form is never submitted
LoopRawOnly ==
    /\ Alive
    /\ dpc = "loop"
    /\ a <= Len(cur.Content.elems)
    /\ cur.Content.elems[a].t = "WebMessageInfo"
    /\ handle(Envelope(a))
    /\ a' = a + 1
    /\ UNCHANGED <<envVars, regVars, dpc, entry, cur, contacts, diag, crashed>>

\* lines 186-187
LoopRaw ==
    /\ Alive
    /\ dpc = "loop"
    /\ a <= Len(cur.Content.elems)
    /\ cur.Content.elems[a].t = "WebMessageInfo"
    /\ handle(Envelope(a))
    /\ dpc' = "typed"
    /\ UNCHANGED <<envVars, regVars, entry, cur, a, contacts, diag, crashed>>

\* line 188
LoopTyped ==
    /\ Alive
    /\ dpc = "typed"
    /\ handle(parseProtoMessage(Envelope(a)))
    /\ decoded' = Append(decoded, Envelope(a))
    /\ a' = a + 1
    /\ dpc' = "loop"
    /\ UNCHANGED <<written, regVars, entry, cur, contacts, diag, crashed>>

\* a mutant of Return: the call waits for the goroutines before it returns
ReturnAfterWait ==
    /\ Alive
    /\ dpc = "return"
    /\ tasks = EmptyBag
    /\ dpc' = "idle"
    /\ entry' = "none"
    /\ cur' = Nil
    /\ a' = 1
    /\ subs' = <<>>
    /\ started' = <<>>
    /\ contacts' = <<>>
    /\ diag' = <<>>
    /\ written' = {}
    /\ decoded' = <<>>
    /\ UNCHANGED <<regVars, tasks, crashed>>

\* the call returns to the producer: its histories are dropped
Return ==
    /\ Alive
    /\ dpc = "return"
    /\ dpc' = "idle"
    /\ entry' = "none"
    /\ cur' = Nil
    /\ a' = 1
    /\ subs' = <<>>
    /\ started' = <<>>
    /\ contacts' = <<>>
    /\ diag' = <<>>
    /\ written' = {}
    /\ decoded' = <<>>
    /\ UNCHANGED <<regVars, tasks, crashed>>

\* the steps of the producer inside a call
DispatchStep ==
    \/ LoopEnd
    \/ LoopSkip
    \/ LoopRaw
    \/ LoopTyped
    \/ Return

(***************************************************************************)
(* The goroutines of lines 112-165.  The scheduler runs a started          *)
(* goroutine, which calls the observer's method; the method returns, never *)
(* returns, or panics.  No goroutine of handler.go recovers, so a panic    *)
(* terminates the process.                                                 *)
(***************************************************************************)
\* a mutant of Run: the deliveries to one observer run in submission order, a
\* goroutine waiting for those of the same observer started before it
RunInSubmissionOrder(g) ==
    /\ Alive
    /\ \A k, l \in 1..Len(started) :
           (/\ k < l
            /\ Live(started[l]) = g
            /\ started[k].h = g.h
            /\ Live(started[k]) # g)
               => ~BagIn(Live(started[k]), tasks)
    /\ tasks' = tasks (-) SetToBag({g})
    /\ UNCHANGED <<envVars, regVars, dpc, entry, cur, a, histVars, crashed>>

\* the goroutine runs: the method is called and returns
Run(g) ==
    /\ Alive
    /\ tasks' = tasks (-) SetToBag({g})
    /\ UNCHANGED <<envVars, regVars, dpc, entry, cur, a, histVars, crashed>>

\* the goroutine runs and the method panics: the process and every
\* goroutine of it end
Panic(g) ==
    /\ Alive
    /\ tasks' = EmptyBag
    /\ crashed' = "panic"
    /\ UNCHANGED <<envVars, regVars, dpc, entry, cur, a, histVars>>

\* HandleRawMessage is called with the pointer taken from the content (lines
\* 162-167 and 186-187), not with a copy: the goroutine runs, the method clears
\* the message of envelope j, which dispatch still holds, and returns
RunWriting(g, j) ==
    /\ Alive
    /\ g.cb = "HandleRawMessage"
    /\ dpc \in {"loop", "typed", "return"}
    /\ entry = "dispatch"
    /\ cur.t = "Node" /\ cur.Description = "action" /\ IsSlice(cur.Content)
    /\ j \in 1..Len(cur.Content.elems)
    /\ j < a \/ (j = a /\ dpc = "typed")
    /\ j \notin written
    /\ cur.Content.elems[j] = g.arg
    /\ g.arg.body # "none"
    /\ written' = written \cup {j}
    /\ tasks' = tasks (-) SetToBag({g})
    /\ UNCHANGED <<decoded, regVars, dpc, entry, cur, a, histVars, crashed>>

(***************************************************************************)
(* The data race of lines 105 and 173.  AddHandler stores the three words  *)
(* of wac.handler without synchronisation while the producer's goroutine   *)
(* loads them.  A load ordered before or after the store is a step taken   *)
(* before or after AddHandlerAssign.  A load that overlaps the store mixes *)
(* the old and the new header: the new pointer with the old length is the  *)
(* old registry again, the old pointer with the new length makes the range *)
(* loop read past the old array (at address 0 for the first AddHandler),   *)
(* which faults in the producer's goroutine and ends the process.          *)
(***************************************************************************)
\* the store is under way and the producer's next step ranges over wac.handler
RacyRead ==
    /\ rpc = "append"
    /\ \/ dpc = "idle" /\ BagCardinality(tasks) <= MaxPending
       \/ /\ dpc = "loop"
          /\ a <= Len(cur.Content.elems)
          /\ cur.Content.elems[a].t = "WebMessageInfo"
       \/ /\ dpc = "typed"
          /\ parseProtoMessage(Envelope(a)) # Nil

TornRead ==
    /\ Alive
    /\ RacyRead
    /\ tasks' = EmptyBag
    /\ crashed' = "fault"
    /\ UNCHANGED <<envVars, regVars, dpc, entry, cur, a, histVars>>

\* the producer offers a value only between calls
Offered(inputs) == IF dpc = "idle" THEN inputs ELSE {}

Next ==
    \/ \E h \in Observers : AddHandler(h)
    \/ AddHandlerAssign
    \/ \E m \in Offered(HandleInputs) : HandleCall(m)
    \/ \E m \in Offered(DispatchInputs) : DispatchNil(m)
    \/ \E m \in Offered(DispatchInputs) : DispatchAction(m)
    \/ \E m \in Offered(DispatchInputs) : DispatchContacts(m)
    \/ \E m \in Offered(DispatchInputs) : DispatchNodeNothing(m)
    \/ \E m \in Offered(DispatchInputs) : DispatchErrorOrString(m)
    \/ \E m \in Offered(DispatchInputs) : DispatchDefault(m)
    \/ DispatchStep
    \/ \E g \in BagToSet(tasks) : Run(g)
    \/ \E g \in BagToSet(tasks), j \in 1..MaxContent : RunWriting(g, j)
    \/ \E g \in BagToSet(tasks) : Panic(g)
    \/ TornRead

Spec == Init /\ [][Next]_vars

\* the producer's goroutine is scheduled; nothing is assumed of the goroutines
\* of the observers, whose methods may never return
FairSpec == Spec /\ WF_vars(DispatchStep)

(***************************************************************************)
(* What the claims speak of.                                               *)
(***************************************************************************)
\* the capability that receives a value of each kind, as the interfaces of
\* lines 18-96 document it; "none" for a value that is no event
Capability(m) ==
    CASE m.t = "error" -> "HandleError"
      [] m.t = "string" -> "HandleJsonMessage"
      [] m.t = "TextMessage" -> "HandleTextMessage"
      [] m.t = "ImageMessage" -> "HandleImageMessage"
      [] m.t = "VideoMessage" -> "HandleVideoMessage"
      [] m.t = "AudioMessage" -> "HandleAudioMessage"
      [] m.t = "DocumentMessage" -> "HandleDocumentMessage"
      [] m.t = "LocationMessage" -> "HandleLocationMessage"
      [] m.t = "LiveLocationMessage" -> "HandleLiveLocationMessage"
      [] m.t = "WebMessageInfo" -> "HandleRawMessage"
      [] OTHER -> "none"

\* observer o has the capability for m: every observer has HandleError
Qualifies(o, m) ==
    \/ Capability(m) = "HandleError"
    \/ Capability(m) \in Methods(o)

\* the goroutines that submission s of this call started for registry index i
Deliveries(s, i) ==
    {k \in 1..Len(started) : started[k].sub = s /\ started[k].i = i}

\* the goroutines that submission s of this call started
DeliveriesOf(s) == {k \in 1..Len(started) : started[k].sub = s}

\* C1: every handle call starts, for every observer of the registry it read
\* that has the capability of the submitted event, exactly one goroutine, and
\* this goroutine calls that capability of that observer with the event.
C1_Completeness ==
    \A s \in 1..Len(subs) :
        \A i \in 1..Len(subs[s].hs) :
            Qualifies(subs[s].hs[i], subs[s].m)
                => /\ Cardinality(Deliveries(s, i)) = 1
                   /\ \A k \in Deliveries(s, i) :
                          /\ started[k].h = subs[s].hs[i]
                          /\ started[k].cb = Capability(subs[s].m)
                          /\ started[k].arg = subs[s].m

\* an action node has been routed while A and F were registered: its text
\* message went to both
C1_Witness ==
    /\ dpc = "return"
    /\ entry = "dispatch"
    /\ \E s \in 1..Len(subs) :
           /\ subs[s].m.t = "TextMessage"
           /\ subs[s].hs = <<"A", "F">>
           /\ Cardinality(DeliveriesOf(s)) = 2

\* C2: no goroutine, started in this call or live, calls for an event other
\* than an error a method of an observer that lacks the capability of that
\* event, or a method other than that capability.
C2_NonLeakage ==
    /\ \A k \in 1..Len(started) :
           /\ started[k].cb = Capability(started[k].arg)
           /\ Qualifies(started[k].h, started[k].arg)
           /\ started[k].arg = subs[started[k].sub].m
    /\ \A g \in BagToSet(tasks) :
           /\ g.cb = Capability(g.arg)
           /\ Qualifies(g.h, g.arg)

\* the scenario of the specification: A (text) and B (image) are registered and
\* an action node with a text envelope and an image envelope has been routed;
\* A got the text message only, B the image message only, nobody the envelopes
C2_Witness ==
    /\ dpc = "return"
    /\ entry = "dispatch"
    /\ handler = <<"A", "B">>
    /\ Len(subs) = 4
    /\ \A s \in 1..4 : subs[s].hs = <<"A", "B">>
    /\ subs[2].m.t = "TextMessage"
    /\ subs[4].m.t = "ImageMessage"
    /\ Len(started) = 2
    /\ started[1].h = "A" /\ started[1].cb = "HandleTextMessage"
    /\ started[2].h = "B" /\ started[2].cb = "HandleImageMessage"

\* C3: every handle call of an error starts exactly one goroutine per entry of
\* the registry it read, calling HandleError of that entry with the error,
\* whatever else the entry implements; with an empty registry it starts none;
\* and the call has reached its return.
C3_ErrorUniversality ==
    \A s \in 1..Len(subs) :
        subs[s].m.t = "error"
            => /\ dpc = "return"
               /\ Cardinality(DeliveriesOf(s)) = Len(subs[s].hs)
               /\ \A i \in 1..Len(subs[s].hs) :
                      \E k \in DeliveriesOf(s) :
                          /\ started[k].i = i
                          /\ started[k].h = subs[s].hs[i]
                          /\ started[k].cb = "HandleError"
                          /\ started[k].arg = subs[s].m

\* an error has been dispatched to A and B, neither of which handles status
\* text: both got it
C3_Witness ==
    /\ dpc = "return"
    /\ entry = "dispatch"
    /\ cur.t = "error"
    /\ Len(subs) = 1
    /\ subs[1].hs = <<"A", "B">>
    /\ Len(started) = 2
    /\ started[1].h = "A" /\ started[2].h = "B"

\* the envelopes of a content sequence, by index
EnvelopesOf(elems) == {j \in 1..Len(elems) : elems[j].t = "WebMessageInfo"}

\* the submissions of this call whose message has one of the types ts
SubsOfType(ts) == {s \in 1..Len(subs) : subs[s].m.t \in ts}

C5_ContactsResponse ==
    (/\ dpc = "return"
     /\ cur.t = "Node"
     /\ cur.Description = "response"
     /\ Lookup(cur.Attributes, "type") = "contacts")
        => /\ contacts = <<cur.Content>>
           /\ subs = <<>>
           /\ started = <<>>

\* a contacts response whose content is a sequence holding an envelope has been
\* routed while F, which handles raw messages, was registered
C5_Witness ==
    /\ dpc = "return"
    /\ cur.t = "Node"
    /\ cur.Description = "response"
    /\ Lookup(cur.Attributes, "type") = "contacts"
    /\ cur.Content.t = "slice"
    /\ cur.Content.elems = <<WebMessageInfo("TextMessage")>>
    /\ handler = <<"F">>
    /\ contacts = <<cur.Content>>

\* a node that is neither an action node nor a contacts response
NoopNode(msg) ==
    /\ msg.t = "Node"
    /\ msg.Description # "action"
    /\ ~(msg.Description = "response" /\ Lookup(msg.Attributes, "type") = "contacts")

\* C6: the call of dispatch with a node that is neither an action node nor a
\* contacts response goes straight to its return: it calls neither handle nor
\* updateContacts, starts no goroutine, writes no diagnostic and leaves the
\* registry and the live goroutines as they were.
C6_OtherNodes ==
    [][(dpc = "idle" /\ entry' = "dispatch" /\ NoopNode(cur'))
          => /\ dpc' = "return"
             /\ subs' = <<>> /\ started' = <<>> /\ contacts' = <<>> /\ diag' = <<>>
             /\ UNCHANGED <<handler, rpc, rnew, added, a, tasks, crashed>>]_vars

\* a response node of another type, holding an envelope, has been routed while
\* F was registered
C6_Witness ==
    /\ dpc = "return"
    /\ entry = "dispatch"
    /\ NoopNode(cur)
    /\ cur.Description = "response"
    /\ cur.Attributes = {<<"type", "other">>}
    /\ cur.Content.t = "slice"
    /\ cur.Content.elems = <<WebMessageInfo("TextMessage")>>
    /\ handler = <<"F">>
    /\ subs = <<>> /\ contacts = <<>>

\* C7: the failure of an observer's method does not terminate the process,
\* so that the dispatcher and the goroutines of the other observers go on.
C7_FailureIsolated == crashed # "panic"

\* C8: a call of dispatch or handle returns to the producer, whatever the
\* goroutines it started do and even if none of them ever finishes (unless the
\* process has ended).
C8_NonBlocking == (dpc # "idle") ~> (dpc = "idle" \/ ~Alive)

\* dispatch of an action node is at its return while the four goroutines it
\* started have not run
C8_Witness ==
    /\ dpc = "return"
    /\ entry = "dispatch"
    /\ Len(started) = 4
    /\ BagCardinality(tasks) >= 4
    /\ \A n \in 1..4 :
           BagIn([h |-> started[n].h, cb |-> started[n].cb, arg |-> started[n].arg],
                 tasks)

\* the registry entries that handle status text
JsonCapable(hs) == {i \in 1..Len(hs) : "HandleJsonMessage" \in Methods(hs[i])}

\* C9: the call of dispatch with an error starts one HandleError goroutine per
\* registry entry; with a string, one HandleJsonMessage goroutine per entry
\* that has that method and none for the others; with nil it starts nothing,
\* calls nothing and changes nothing.
C9_TopLevelEntry ==
    [][(dpc = "idle" /\ entry' = "dispatch")
          => /\ cur' = Nil
                   => /\ dpc' = "return"
                      /\ UNCHANGED <<handler, rpc, rnew, added, a, subs, started,
                                     contacts, diag, tasks, crashed>>
             /\ cur'.t = "error"
                   => /\ dpc' = "return"
                      /\ Len(subs') = 1 /\ subs'[1].m = cur'
                      /\ started' = [i \in 1..Len(handler) |->
                                       [sub |-> 1, i |-> i, h |-> handler[i],
                                        cb |-> "HandleError", arg |-> cur']]
                      /\ BagCardinality(tasks') = BagCardinality(tasks) + Len(handler)
                      /\ contacts' = <<>> /\ diag' = <<>>
             /\ cur'.t = "string"
                   => /\ dpc' = "return"
                      /\ Len(subs') = 1 /\ subs'[1].m = cur'
                      /\ Len(started') = Cardinality(JsonCapable(handler))
                      /\ \A i \in JsonCapable(handler) :
                             \E n \in 1..Len(started') :
                                 started'[n] = [sub |-> 1, i |-> i, h |-> handler[i],
                                                cb |-> "HandleJsonMessage", arg |-> cur']
                      /\ BagCardinality(tasks')
                             = BagCardinality(tasks) + Cardinality(JsonCapable(handler))
                      /\ contacts' = <<>> /\ diag' = <<>>]_vars

\* a string has been dispatched while A and F were registered: only F, which
\* handles status text, got it
C9_Witness ==
    /\ dpc = "return"
    /\ entry = "dispatch"
    /\ cur.t = "string"
    /\ subs = <<[m |-> cur, hs |-> <<"A", "F">>]>>
    /\ Len(started) = 1
    /\ started[1].h = "F"
    /\ started[1].cb = "HandleJsonMessage"

\* C10: the registry is the sequence of the observers passed to AddHandler, in
\* call order with duplicates kept: all of them when no AddHandler is under
\* way, all but the last (which append has already put into the new slice)
\* during one.  No step of dispatch or handle changes it.
C10_AppendOnly ==
    /\ rpc = "idle" => handler = added
    /\ rpc = "append"
           => /\ handler = SubSeq(added, 1, Len(added) - 1)
              /\ rnew = added

\* A has been registered twice and an error dispatched to both entries
C10_Witness ==
    /\ rpc = "idle"
    /\ added = <<"A", "A">>
    /\ handler = <<"A", "A">>
    /\ dpc = "return"
    /\ cur.t = "error"
    /\ Len(started) = 2

\* what submission s of this call started: registry index, observer, method
\* and argument of each goroutine
TargetsOf(s) ==
    {[i |-> started[k].i, h |-> started[k].h, cb |-> started[k].cb,
      arg |-> started[k].arg] : k \in DeliveriesOf(s)}

\* the goroutines a handle step has added to those of this call
NewlyStarted == SubSeq(started', Len(started) + 1, Len(started'))

\* C11: classification is a function of the value's type alone.  Two
\* submissions of the same value against the same registry start the same
\* goroutines; the goroutines of one submission all call one method, and
\* submissions of values of one type call the same method; a chat message is
\* handed to the method of its own variant as the very value submitted.  The
\* handle step that classifies a chat message changes nothing but the
\* goroutines it starts: the registry, the calls of updateContacts and the
\* diagnostics are as before.
C11_ClassificationPure ==
    /\ [](/\ \A s1, s2 \in 1..Len(subs) :
               (subs[s1].m = subs[s2].m /\ subs[s1].hs = subs[s2].hs)
                   => TargetsOf(s1) = TargetsOf(s2)
          /\ \A s1, s2 \in 1..Len(subs) :
               subs[s1].m.t = subs[s2].m.t
                   => \A k1 \in DeliveriesOf(s1), k2 \in DeliveriesOf(s2) :
                          started[k1].cb = started[k2].cb
          /\ \A s \in 1..Len(subs) :
               subs[s].m \in ChatValues
                   => \A k \in DeliveriesOf(s) :
                          /\ started[k].cb = Capability(subs[s].m)
                          /\ started[k].arg = subs[s].m)
    /\ [][(Len(subs') = Len(subs) + 1 /\ subs'[Len(subs')].m \in ChatValues)
             => /\ UNCHANGED <<handler, rpc, rnew, added, contacts, diag, crashed>>
                /\ \A k \in 1..Len(NewlyStarted) :
                       /\ NewlyStarted[k].cb = Capability(subs'[Len(subs')].m)
                       /\ NewlyStarted[k].arg = subs'[Len(subs')].m]_vars

\* a text message, already typed, has been passed to handle while A and F were
\* registered: both got it as a text message
C11_Witness ==
    /\ dpc = "return"
    /\ entry = "handle"
    /\ cur = [t |-> "TextMessage"]
    /\ subs = <<[m |-> cur, hs |-> <<"A", "F">>]>>
    /\ Len(started) = 2
    /\ \A k \in 1..2 : started[k].cb = "HandleTextMessage" /\ started[k].arg = cur

\* C12: no read of the registry by handle overlaps the store of AddHandler:
\* the range loop of handleMessage never iterates a slice header that is
\* partly the old and partly the new one.
C12_ConsistentSnapshot == crashed # "fault"

\* the envelopes of a content sequence, in content order
EnvelopeSeq(elems) == SelectSeq(elems, LAMBDA e : e.t = "WebMessageInfo")

\* the producer is inside dispatch of an action node with a content sequence
RoutingAction ==
    /\ entry = "dispatch"
    /\ cur.t = "Node"
    /\ cur.Description = "action"
    /\ cur.Content.t = "slice"

\* C13: goroutines are started in the order of the submissions and, within one
\* submission, in registry order.  Inside an action node the submissions
\* follow the content: the n-th envelope is submitted raw as submission 2n-1
\* and its typed form as submission 2n.  Goroutines are started only inside a
\* call, for the submission being made, and a call begins only after the call
\* before it has returned.  (Nothing orders the completion of the goroutines:
\* see the witness.)
C13_InitiationOrder ==
    /\ [](/\ \A k, l \in 1..Len(started) :
               k < l => \/ started[k].sub < started[l].sub
                        \/ /\ started[k].sub = started[l].sub
                           /\ started[k].i < started[l].i
          /\ RoutingAction
               => /\ Len(subs) <= 2 * Len(EnvelopeSeq(cur.Content.elems))
                  /\ \A s \in 1..Len(subs) :
                         IF s % 2 = 1
                         THEN subs[s].m = EnvelopeSeq(cur.Content.elems)[(s + 1) \div 2]
                         ELSE /\ subs[s].m.t \in ChatTypes \cup {"nil"}
                              /\ subs[s].m # Nil
                                     => subs[s].m = parseProtoMessage(subs[s - 1].m))
    /\ [][/\ started' # started
               => \/ started' = <<>> /\ dpc = "return" /\ dpc' = "idle"
                  \/ /\ dpc' # "idle"
                     /\ Len(subs') = Len(subs) + 1
                     /\ SubSeq(started', 1, Len(started)) = started
                     /\ \A k \in 1..Len(NewlyStarted) :
                            /\ NewlyStarted[k].sub = Len(subs')
                            /\ NewlyStarted[k].arg = subs'[Len(subs')].m
          /\ entry' # entry
               => \/ entry = "none" /\ dpc = "idle" /\ started = <<>>
                  \/ entry' = "none" /\ dpc = "return" /\ dpc' = "idle"]_vars

\* an action node with one text envelope has been routed while A and F were
\* registered: F's raw delivery was started first, then the text deliveries of
\* A and of F in registry order; A's has run while F's raw delivery has not
C13_Witness ==
    /\ dpc = "return"
    /\ RoutingAction
    /\ cur.Content.elems = <<WebMessageInfo("TextMessage")>>
    /\ Len(started) = 3
    /\ started[1].h = "F" /\ started[1].cb = "HandleRawMessage"
    /\ started[2].h = "A" /\ started[2].cb = "HandleTextMessage"
    /\ started[3].h = "F" /\ started[3].cb = "HandleTextMessage"
    /\ BagIn(Live(started[1]), tasks)
    /\ ~BagIn(Live(started[2]), tasks)

\* C14: the dispatcher puts no order on the goroutines it has started: while
\* the process lives, any goroutine that has been started and has not run may
\* be the next to run, whatever was submitted before it to the same observer.
\* So an observer's callback for a later event can run before its callback
\* for an earlier one (the witness).
C14_NoPerObserverOrder ==
    Alive => \A g \in BagToSet(tasks) : ENABLED Run(g)

\* an action node with one text envelope has been routed while F was
\* registered: F was sent the envelope (E1) and then the text message (E2);
\* its callback for E2 has run, its callback for E1 has not
C14_Witness ==
    /\ dpc = "return"
    /\ RoutingAction
    /\ handler = <<"F">>
    /\ Len(started) = 2
    /\ started[1].h = "F" /\ started[1].cb = "HandleRawMessage"
    /\ started[2].h = "F" /\ started[2].cb = "HandleTextMessage"
    /\ BagIn(Live(started[1]), tasks)
    /\ ~BagIn(Live(started[2]), tasks)

\* C15: no observer's write to an event it was handed reaches anybody else.
\* Inside an action node the message decoder, which runs after the raw
\* deliveries were started, yields the typed form of the envelope as it was
\* submitted raw; and a raw delivery that has been started and has not run
\* holds the envelope as it was submitted (stated for an envelope that has no
\* equal in the content).
C15_NeverShared ==
    RoutingAction
        => /\ \A s \in 1..Len(subs) :
                  s % 2 = 0 => subs[s].m = parseProtoMessage(subs[s - 1].m)
           /\ \A k \in 1..Len(started), j \in EnvelopesOf(cur.Content.elems) :
                  (/\ started[k].cb = "HandleRawMessage"
                   /\ started[k].arg = cur.Content.elems[j]
                   /\ \A i \in EnvelopesOf(cur.Content.elems) :
                          i # j => cur.Content.elems[i] # cur.Content.elems[j]
                   /\ BagIn(Live(started[k]), tasks))
                      => Envelope(j) = started[k].arg

\* the producer is inside dispatch of an action node
InActionNode ==
    /\ entry = "dispatch"
    /\ cur.t = "Node"
    /\ cur.Description = "action"

\* C16: dispatch of an action node never calls updateContacts, whatever its
\* attributes; with a content that is no sequence it submits and starts
\* nothing; with a sequence it submits only for the elements that are
\* envelopes: when it returns, submissions 2n-1 and 2n are the raw and the
\* typed form of the n-th envelope of the content, whatever other elements
\* stand before, between or after the envelopes, and the goroutines started
\* are those of these submissions.
C16_OnlyEnvelopes ==
    InActionNode
        => /\ contacts = <<>>
           /\ ~IsSlice(cur.Content) => (subs = <<>> /\ started = <<>> /\ dpc = "return")
           /\ IsSlice(cur.Content)
                  => /\ \A s \in 1..Len(subs) :
                            subs[s].m.t \in {"WebMessageInfo", "nil"} \cup ChatTypes
                     /\ \A k \in 1..Len(started) :
                            /\ started[k].sub \in 1..Len(subs)
                            /\ started[k].arg = subs[started[k].sub].m
                     /\ dpc = "return"
                            => /\ Len(subs) = 2 * Len(EnvelopeSeq(cur.Content.elems))
                               /\ \A n \in 1..Len(EnvelopeSeq(cur.Content.elems)) :
                                      /\ subs[2 * n - 1].m = EnvelopeSeq(cur.Content.elems)[n]
                                      /\ subs[2 * n].m = parseProtoMessage(decoded[n])

\* an action node whose attribute "type" is "contacts" and whose content holds
\* an element that is no envelope before a text envelope has been routed while
\* F was registered: F got the envelope and the text message, and
\* updateContacts was not called
C16_Witness ==
    /\ dpc = "return"
    /\ InActionNode
    /\ cur.Attributes = {<<"type", "contacts">>}
    /\ IsSlice(cur.Content)
    /\ cur.Content.elems = <<Other, WebMessageInfo("TextMessage")>>
    /\ handler = <<"F">>
    /\ Len(subs) = 2
    /\ Len(started) = 2
    /\ started[1].cb = "HandleRawMessage"
    /\ started[2].cb = "HandleTextMessage"
    /\ contacts = <<>>

\* C17: the call of dispatch with a value that is neither nil, a node, an
\* error nor a string (a bare envelope or a chat message among them) goes
\* straight to its return: it writes the type of the value to stderr, calls
\* neither handle nor updateContacts and starts no goroutine, whoever is
\* registered.
C17_UnknownDropped ==
    [][(/\ dpc = "idle"
        /\ entry' = "dispatch"
        /\ cur'.t \notin {"nil", "Node", "error", "string"})
          => /\ dpc' = "return"
             /\ subs' = <<>> /\ started' = <<>> /\ contacts' = <<>>
             /\ diag' = <<cur'.t>>
             /\ UNCHANGED <<handler, rpc, rnew, added, a, tasks, written,
                            decoded, crashed>>]_vars

\* a bare text envelope has been pushed into dispatch while F, which handles
\* raw and text messages, was registered: nothing was submitted
C17_Witness ==
    /\ dpc = "return"
    /\ entry = "dispatch"
    /\ cur = WebMessageInfo("TextMessage")
    /\ handler = <<"F">>
    /\ subs = <<>>
    /\ started = <<>>
    /\ contacts = <<>>
    /\ diag = <<"WebMessageInfo">>

\* the entries of registry hs that hold observer o
EntriesOf(hs, o) == {i \in 1..Len(hs) : hs[i] = o}

\* C18: every submission starts, for each observer that has the capability of
\* the submitted event, as many goroutines as the registry it read has
\* entries holding that observer (for an error: as many HandleError calls as
\* entries), and for each other observer none.
C18_OncePerEntry ==
    \A s \in 1..Len(subs), o \in Observers :
        Cardinality({k \in DeliveriesOf(s) : started[k].h = o})
            = IF Qualifies(o, subs[s].m)
              THEN Cardinality(EntriesOf(subs[s].hs, o))
              ELSE 0

\* B has been registered twice and an image message passed to handle: two
\* goroutines call B.HandleImageMessage with it
C18_Witness ==
    /\ dpc = "return"
    /\ entry = "handle"
    /\ cur = [t |-> "ImageMessage"]
    /\ added = <<"B", "B">>
    /\ subs = <<[m |-> cur, hs |-> <<"B", "B">>]>>
    /\ Len(started) = 2
    /\ \A k \in 1..2 :
           /\ started[k].i = k
           /\ started[k].h = "B"
           /\ started[k].cb = "HandleImageMessage"

\* registry hs1 is an initial part of registry hs2
IsPrefix(hs1, hs2) ==
    /\ Len(hs1) <= Len(hs2)
    /\ hs1 = SubSeq(hs2, 1, Len(hs1))

\* C19: every submission reads the registry as it is when the submission is
\* made, not as it was when the call began, and its targets are taken from
\* that one reading.  Within a call the registries read grow: the one read
\* by an earlier submission is an initial part of the one read by a later
\* submission.  So an entry registered during the call gets nothing from the
\* submissions made before it was visible and, if it qualifies, one goroutine
\* from each submission made after (C1), which may begin with the typed form
\* of an envelope whose raw form it did not get (the witness).
C19_RereadPerSubmission ==
    /\ [](/\ \A s1, s2 \in 1..Len(subs) :
               s1 < s2 => IsPrefix(subs[s1].hs, subs[s2].hs)
          /\ \A k \in 1..Len(started) :
               /\ started[k].i \in 1..Len(subs[started[k].sub].hs)
               /\ started[k].h = subs[started[k].sub].hs[started[k].i])
    /\ [][Len(subs') = Len(subs) + 1
             => /\ subs'[Len(subs')].hs = handler
                /\ NewlyStarted =
                     [k \in 1..Len(handleMessage(subs'[Len(subs')].m, handler)) |->
                        [sub |-> Len(subs'),
                         i |-> handleMessage(subs'[Len(subs')].m, handler)[k].i,
                         h |-> handleMessage(subs'[Len(subs')].m, handler)[k].h,
                         cb |-> handleMessage(subs'[Len(subs')].m, handler)[k].cb,
                         arg |-> subs'[Len(subs')].m]]]_vars

\* F became visible between the raw and the typed submission of the only
\* envelope of an action node: it got the text message and not the envelope
C19_Witness ==
    /\ dpc = "return"
    /\ RoutingAction
    /\ cur.Content.elems = <<WebMessageInfo("TextMessage")>>
    /\ Len(subs) = 2
    /\ subs[1].hs = <<>>
    /\ subs[2].hs = <<"F">>
    /\ subs[2].m = [t |-> "TextMessage"]
    /\ Len(started) = 1
    /\ started[1].sub = 2
    /\ started[1].h = "F"
    /\ started[1].cb = "HandleTextMessage"

=============================================================================
